---------------------------- MODULE Spec2Model ----------------------------
(***************************************************************************)
(* Simulation-based combinational equivalence checking                     *)
(* (mockturtle/algorithms/simulation_cec.hpp).                             *)
(*                                                                         *)
(* A uint32_t is a pair <<hi, lo>> of 16-bit limbs (value hi * 2^16 + lo), *)
(* so that every operation is computed modulo 2^32 as the machine does.    *)
(* A truth table over split_var variables is the set of the assignments on *)
(* which it is 1; an assignment is the set of the variables that are 1.    *)
(* A shift whose count is not below 32 is undefined in C++; `ub` names the *)
(* outcome the build produces for it: "mask" (the count is taken modulo    *)
(* 32, as x86 and AArch64 do) or "zero" (the result is 0, as ARM32 does).  *)
(***************************************************************************)
EXTENDS Integers, Sequences, FiniteSets

VARIABLES ub, ntk1, ntk2, gates, pst_given,
          pc, ntk_miter, st, split_var, rounds, i, result, pst, ret,
          sim_log

vars == <<ub, ntk1, ntk2, gates, pst_given,
          pc, ntk_miter, st, split_var, rounds, i, result, pst, ret,
          sim_log>>

-----------------------------------------------------------------------------
(* Bounds of the model *)

\* primary-input counts of the first network range over 0..MaxPis
MaxPis == 41
\* a round is simulated only when its tables have at most MaxSplit variables
MaxSplit == 7
\* a run is simulated only when it has at most MaxRounds rounds
MaxRounds == 8

-----------------------------------------------------------------------------
(* uint32_t arithmetic *)

Limb == 2 ^ 16

U32(x) == <<x \div Limb, x % Limb>>

Zero32 == <<0, 0>>

\* the value of a uint32_t below 2^31 as an integer
ToInt(x) == x[1] * Limb + x[2]

FitsInt(x) == x[1] < 32768

Pow2(k) == 2 ^ k

Add32(a, b) ==
    LET lo == a[2] + b[2]
    IN  <<(a[1] + b[1] + lo \div Limb) % Limb, lo % Limb>>

\* product of two 16-bit limbs as a 32-bit pair
MulLimb(x, y) ==
    LET p1 == x * (y % 256)
        p2 == x * (y \div 256)
        s  == (p1 % Limb) + (p2 % 256) * 256
    IN  <<(p1 \div Limb + p2 \div 256 + s \div Limb) % Limb, s % Limb>>

Mul32(a, b) ==
    LET ll == MulLimb(a[2], b[2])
        hl == MulLimb(a[1], b[2])
        lh == MulLimb(a[2], b[1])
    IN  <<(ll[1] + hl[2] + lh[2]) % Limb, ll[2]>>

Le32(a, b) == a[1] < b[1] \/ (a[1] = b[1] /\ a[2] <= b[2])

Lt32(a, b) == a[1] < b[1] \/ (a[1] = b[1] /\ a[2] < b[2])

\* x << k and x >> k for a count 0 <= k < 32
ShlDefined(x, k) ==
    IF k >= 16
    THEN <<(x[2] * Pow2(k - 16)) % Limb, 0>>
    ELSE <<(x[1] * Pow2(k) + (x[2] * Pow2(k)) \div Limb) % Limb,
           (x[2] * Pow2(k)) % Limb>>

ShrDefined(x, k) ==
    IF k >= 16
    THEN <<0, x[1] \div Pow2(k - 16)>>
    ELSE <<x[1] \div Pow2(k),
           (x[2] \div Pow2(k)) + (x[1] % Pow2(k)) * Pow2(16 - k)>>

\* the shifts of the source, a count of 32 or more being undefined
Shl(u, x, k) ==
    IF k < 32 THEN ShlDefined(x, k)
    ELSE IF u = "mask" THEN ShlDefined(x, k % 32) ELSE Zero32

Shr(u, x, k) ==
    IF k < 32 THEN ShrDefined(x, k)
    ELSE IF u = "mask" THEN ShrDefined(x, k % 32) ELSE Zero32

-----------------------------------------------------------------------------
(* simulation_cec_impl: the split planner *)

\* 1 << 29, the memory budget of compute_split_var
Budget == U32(Pow2(29))

\* the loop of compute_split_var: the value of m when the loop ends
RECURSIVE split_loop(_, _, _, _)
split_loop(u, m, n, V) ==
    IF m <= n /\ Le32(Mul32(Add32(U32(32), Shl(u, U32(1), m - 3)), U32(V)), Budget)
    THEN split_loop(u, m + 1, n, V)
    ELSE m

compute_split_var_late(u, n, V) ==
    IF n <= 7 THEN n ELSE split_loop(u, 7, n, V) - 1

compute_split_var(u, n, V) ==
    IF n <= 6 THEN n ELSE split_loop(u, 7, n, V) - 1

compute_round(u, n, sp) == Shl(u, U32(1), n - sp)

-----------------------------------------------------------------------------
(* part_simulator *)

\* kitty::dynamic_truth_table tt(num_vars): the all-zero table; ~tt
Assignments(num_vars) == SUBSET (0 .. num_vars - 1)

Const0(num_vars) == {}

Not(num_vars, tt) == Assignments(num_vars) \ tt

\* kitty::create_nth_var
NthVar(num_vars, index) == {a \in Assignments(num_vars) : index \in a}

\* kitty::is_const0
is_const0(tt) == tt = {}

part_simulator(sp_var, r) == [split_var |-> sp_var, round |-> r]

compute_constant(psim, value) ==
    IF value THEN Not(psim.split_var, Const0(psim.split_var))
    ELSE Const0(psim.split_var)

compute_pi(u, psim, index) ==
    IF index < psim.split_var
    THEN NthVar(psim.split_var, index)
    ELSE LET value == Shr(u, psim.round, index - psim.split_var)[2] % 2
         IN  IF value = 0
             THEN Not(psim.split_var, Const0(psim.split_var))
             ELSE Const0(psim.split_var)

-----------------------------------------------------------------------------
(* The collaborators: networks, miter construction, the network evaluator *)

\* A network: its primary-input count and, per primary output, the set of
\* the input assignments on which the output is 1.
AllOnes(n) == 0 .. n - 1

Funcs(n) ==
    {{}, {{}}, {AllOnes(n)}}
      \cup (IF n >= 1 THEN {{{n - 1}}} ELSE {})
      \cup (IF n = 2 THEN {{{0}, {1}, {0, 1}}} ELSE {})

Networks(n) ==
    {[num_pis |-> n, pos |-> <<f>>] : f \in Funcs(n)}
      \cup {[num_pis |-> n, pos |-> <<{}, f>>] : f \in {{}, {{}}}}

\* gate counts of the miter: 0, 1, the last count that keeps split_var at 8
\* and at 7, the first that drops it to 6, and two counts whose product
\* with 48 exceeds 2^32
GateCounts == {0, 1, 8388608, 11184810, 11184811, 89478486, 268435456}

NoMiter == [has_value |-> FALSE]

Xor(f, g) == (f \ g) \cup (g \ f)

\* the miter of two networks; V is the gate count of the network built
miter(a, b, V) ==
    IF a.num_pis # b.num_pis \/ Len(a.pos) # Len(b.pos)
    THEN NoMiter
    ELSE [has_value |-> TRUE,
          num_pis   |-> a.num_pis,
          num_gates |-> V,
          pos       |-> [k \in 1 .. Len(a.pos) |-> Xor(a.pos[k], b.pos[k])]]

\* simulate<kitty::dynamic_truth_table>(ntk, psim): one table per primary
\* output; its bit at an assignment of the split variables is the output's
\* value under the values the tables of the primary inputs have there
simulate(u, ntk, psim) ==
    LET pis == [index \in 0 .. ntk.num_pis - 1 |-> compute_pi(u, psim, index)]
    IN  [k \in 1 .. Len(ntk.pos) |->
            {a \in Assignments(psim.split_var) :
                {index \in 0 .. ntk.num_pis - 1 : a \in pis[index]} \in ntk.pos[k]}]

-----------------------------------------------------------------------------
(* simulation_cec_stats and the optional result *)

DefaultStats == [split_var |-> 0, rounds |-> Zero32]

Pending == [returned |-> FALSE]
NullOpt == [returned |-> TRUE, has_value |-> FALSE]
Some(b) == [returned |-> TRUE, has_value |-> TRUE, value |-> b]

MaxInputsLoose == 40 + 1

\* the input bound of simulation_cec
MaxInputs == 40

-----------------------------------------------------------------------------
(* The state machine *)

Init ==
    /\ ub \in {"mask", "zero"}
    /\ \E n \in 0 .. MaxPis :
         /\ ntk1 \in Networks(n)
         /\ ntk2 \in Networks(n) \cup {[num_pis |-> n + 1, pos |-> <<{}>>]}
    /\ gates \in GateCounts
    /\ pst_given \in BOOLEAN
    /\ pc = "start"
    /\ ntk_miter = NoMiter
    /\ st = DefaultStats
    /\ split_var = 0
    /\ rounds = Zero32
    /\ i = 0
    /\ result = FALSE
    /\ pst = DefaultStats
    /\ ret = Pending
    /\ sim_log = {}

\* simulation_cec, lines 181-186: the input bound
CheckBound ==
    /\ pc = "start"
    /\ IF ntk1.num_pis > MaxInputs
       THEN /\ ret' = NullOpt
            /\ pc' = "done"
       ELSE /\ ret' = ret
            /\ pc' = "miter"
    /\ UNCHANGED <<ub, ntk1, ntk2, gates, pst_given, ntk_miter, st, split_var,
                   rounds, i, result, pst, sim_log>>

\* simulation_cec, lines 188-190: the miter, and whether run() is entered
BuildMiter ==
    /\ pc = "miter"
    /\ ntk_miter' = miter(ntk1, ntk2, gates)
    /\ pc' = IF ntk_miter'.has_value THEN "plan" ELSE "finish"
    /\ UNCHANGED <<ub, ntk1, ntk2, gates, pst_given, st, split_var, rounds, i,
                   result, pst, ret, sim_log>>

\* run(), lines 126-133: the plan, recorded in the statistics
RunPlan ==
    /\ pc = "plan"
    /\ split_var' = compute_split_var(ub, ntk_miter.num_pis, ntk_miter.num_gates)
    /\ rounds' = compute_round(ub, ntk_miter.num_pis, split_var')
    /\ st' = [split_var |-> split_var', rounds |-> rounds']
    /\ i' = 0
    /\ pc' = "loop"
    /\ UNCHANGED <<ub, ntk1, ntk2, gates, pst_given, ntk_miter, result, pst, ret,
                   sim_log>>

\* the runs the model simulates: small tables, few rounds
Simulable == split_var <= MaxSplit /\ Le32(rounds, U32(MaxRounds))

some_nonzero_first(tts) == ~ is_const0(tts[1])

\* lines 140-145: some output table is not all-zero
some_nonzero(tts) == \E k \in 1 .. Len(tts) : ~ is_const0(tts[k])

\* run(), lines 135-146: one round of the loop
SimulateRound ==
    /\ pc = "loop"
    /\ Simulable
    /\ Lt32(U32(i), rounds)
    /\ LET psim == part_simulator(split_var, U32(i))
           tts  == simulate(ub, ntk_miter, psim)
       IN  /\ sim_log' = sim_log \cup {[round |-> i, tts |-> tts]}
           /\ IF some_nonzero(tts)
              THEN /\ result' = FALSE
                   /\ pc' = "finish"
                   /\ i' = i
              ELSE /\ result' = result
                   /\ pc' = "loop"
                   /\ i' = i + 1
    /\ UNCHANGED <<ub, ntk1, ntk2, gates, pst_given, ntk_miter, st, split_var,
                   rounds, pst, ret>>

\* run(), lines 135 and 148: the loop ends, run() returns true
RunReturnTrue ==
    /\ pc = "loop"
    /\ Simulable
    /\ ~ Lt32(U32(i), rounds)
    /\ result' = TRUE
    /\ pc' = "finish"
    /\ UNCHANGED <<ub, ntk1, ntk2, gates, pst_given, ntk_miter, st, split_var,
                   rounds, i, pst, ret, sim_log>>

FinishNoCopy ==
    /\ pc = "finish"
    /\ pst' = IF pst_given /\ result THEN st ELSE pst
    /\ ret' = Some(result)
    /\ pc' = "done"
    /\ UNCHANGED <<ub, ntk1, ntk2, gates, pst_given, ntk_miter, st, split_var,
                   rounds, i, result, sim_log>>

\* simulation_cec, lines 195-198: the statistics are copied, the verdict returned
Finish ==
    /\ pc = "finish"
    /\ pst' = IF pst_given THEN st ELSE pst
    /\ ret' = Some(result)
    /\ pc' = "done"
    /\ UNCHANGED <<ub, ntk1, ntk2, gates, pst_given, ntk_miter, st, split_var,
                   rounds, i, result, sim_log>>

Next ==
    \/ CheckBound
    \/ BuildMiter
    \/ RunPlan
    \/ SimulateRound
    \/ RunReturnTrue
    \/ Finish

Spec == Init /\ [][Next]_vars

-----------------------------------------------------------------------------
(* Vocabulary of the properties *)

\* the primary-input count and the gate count run() reads from the miter
n_pis == ntk1.num_pis

\* run() has computed its plan
Planned == ntk_miter.has_value /\ pc \in {"loop", "finish", "done"}

\* simulation_cec has returned
Returned == pc = "done"

SameArity == ntk1.num_pis = ntk2.num_pis /\ Len(ntk1.pos) = Len(ntk2.pos)

\* the two networks agree on every assignment of the primary inputs
Equivalent == ntk1.pos = ntk2.pos

\* bit k of a round index r, exactly
BitOf(r, k) == IF k >= 31 THEN 0 ELSE (r \div Pow2(k)) % 2

\* 2^e as a uint32_t, for e < 32
ExactPow2(e) == IF e < 16 THEN <<0, Pow2(e)>> ELSE <<Pow2(e - 16), 0>>

\* (32 + 2^(m-3)) * V <= 2^29 over the integers, without wrapping
ExactBound(m, V) ==
    IF m - 3 >= 30 THEN V = 0 ELSE V <= Pow2(29) \div (32 + Pow2(m - 3))

\* the inputs held fixed at 1 in round r
FixedOnes(r) ==
    {index \in split_var .. n_pis - 1 :
        ~ is_const0(compute_pi(ub, part_simulator(split_var, U32(r)), index))}

\* the statistics of the miter
PlanStats ==
    LET sp == compute_split_var(ub, ntk_miter.num_pis, ntk_miter.num_gates)
    IN  [split_var |-> sp, rounds |-> compute_round(ub, ntk_miter.num_pis, sp)]

NonZeroLogged == \E e \in sim_log : \E k \in 1 .. Len(e.tts) : e.tts[k] # {}

-----------------------------------------------------------------------------
(* Properties *)

\* C1: for two networks of the same arity with at most 40 primary inputs,
\* simulation_cec returns a present Boolean, true exactly when the networks
\* agree on every assignment of the primary inputs.
C1_VerdictIsEquivalence ==
    (Returned /\ SameArity /\ n_pis <= 40)
        => (ret.has_value /\ (ret.value <=> Equivalent))

\* C2: when miter construction fails, simulation_cec returns an absent
\* optional, never a Boolean.
C2_MiterFailureIsAbsent ==
    (Returned /\ n_pis <= 40 /\ ~ ntk_miter.has_value) => ~ ret.has_value

\* C3: when the first network has more than 40 primary inputs,
\* simulation_cec returns an absent optional whatever the second network is,
\* builds no miter, simulates no round and leaves the statistics unset.
C3_BoundEnforced ==
    n_pis > 40 =>
        /\ ~ ntk_miter.has_value
        /\ sim_log = {}
        /\ pst = DefaultStats
        /\ pc \in {"start", "done"}
        /\ Returned => ret = NullOpt

C3_Witness ==
    /\ Returned
    /\ n_pis = 41
    /\ ntk2.num_pis = 42
    /\ pst_given
    /\ ret = NullOpt

\* C4: in run(), a nonzero output table in any executed round makes the
\* result false; and when run() returns true, every round 0..rounds-1 was
\* simulated and every output table of every round was all-zero.
C4_EarlyExit ==
    (ntk_miter.has_value /\ pc \in {"finish", "done"}) =>
        /\ NonZeroLogged => result = FALSE
        /\ result = TRUE =>
              /\ FitsInt(rounds)
              /\ {e.round : e \in sim_log} = 0 .. ToInt(rounds) - 1
              /\ ~ NonZeroLogged

C4_Witness ==
    /\ Returned
    /\ ret = Some(FALSE)
    /\ NonZeroLogged
    /\ Cardinality(sim_log) = 2
    /\ ToInt(rounds) = 4

\* C5: for every primary-input count in 0..40 and every gate count, the
\* round count computed from the split variable is exactly
\* 2^(n - split_var) as a 32-bit unsigned value, never 0, never wrapped.
C5_RoundCountExact ==
    (Planned /\ n_pis <= 40) =>
        /\ n_pis - split_var < 32
        /\ rounds = ExactPow2(n_pis - split_var)

\* C6: over the rounds 0..rounds-1 of a run, the values fixed for the
\* non-split inputs enumerate each of the 2^(n - split_var) assignments of
\* those inputs exactly once.
C6_RoundsEnumerateOnce ==
    (Planned /\ Simulable) =>
        LET e     == n_pis - split_var
            image == {FixedOnes(r) : r \in 0 .. ToInt(rounds) - 1}
        IN  /\ e < 31
            /\ ToInt(rounds) = Pow2(e)
            /\ Cardinality(image) = Pow2(e)

\* C7: for a fixed gate count the split variable does not decrease when the
\* primary-input count grows by one, and for at most 6 primary inputs it is
\* the primary-input count, with one round.
C7_SplitVarMonotone ==
    Planned =>
        /\ split_var <= compute_split_var(ub, n_pis + 1, gates)
        /\ n_pis <= 6 => (split_var = n_pis /\ rounds = U32(1))

C7_Witness ==
    /\ Returned
    /\ ntk1 = [num_pis |-> 2, pos |-> <<{{0, 1}}>>]
    /\ ntk2 = ntk1
    /\ ret = Some(TRUE)
    /\ pst = [split_var |-> 2, rounds |-> U32(1)]

\* C8: in every round, the table of a primary input whose index is at least
\* split_var is compute_constant of bit (index - split_var) of the round
\* index: all-0 when the bit is 0, all-1 when it is 1.
C8_FixedInputIsConstantOfBit ==
    (pc = "loop" /\ Simulable /\ Lt32(U32(i), rounds)) =>
        LET psim == part_simulator(split_var, U32(i))
        IN  \A index \in split_var .. n_pis - 1 :
                compute_pi(ub, psim, index)
                    = compute_constant(psim, BitOf(i, index - split_var) = 1)

\* C9: for more than 6 primary inputs the split variable s lies in 6..n,
\* every m in 7..s satisfies (32 + 2^(m-3)) * V <= 2^29 exactly, and s is the
\* last such value: s = n or s + 1 violates the bound.
C9_SplitVarExactBound ==
    (Planned /\ n_pis > 6 /\ n_pis <= 40) =>
        /\ 6 <= split_var
        /\ split_var <= n_pis
        /\ \A m \in 7 .. split_var : ExactBound(m, gates)
        /\ split_var < n_pis => ~ ExactBound(split_var + 1, gates)

\* C10: split_var and rounds are in the statistics before the first round
\* and stay there, so when simulation_cec returns the verdict of a run to a
\* caller that supplied a statistics record, the record holds the split
\* variable and the round count of the miter, also after an early exit.
C10_StatsRecorded ==
    /\ (pc = "loop" \/ sim_log # {}) => st = PlanStats
    /\ (Returned /\ ret.has_value /\ ntk_miter.has_value /\ pst_given)
          => pst = PlanStats

C10_Witness ==
    /\ Returned
    /\ ret = Some(FALSE)
    /\ pst_given
    /\ Cardinality(sim_log) = 1
    /\ pst = [split_var |-> 6, rounds |-> U32(4)]

=============================================================================
